---- MODULE Spec2Model ----
(***************************************************************************)
(* Credit-card transaction subsystem: the plpgsql repair routine           *)
(* fix_credit_card_transactions(), the BEFORE INSERT trigger               *)
(* prevent_direct_credit_card_transactions and the create-transaction      *)
(* edge function, over the tables poupeja_transactions,                    *)
(* credit_card_purchases, credit_cards and credit_card_bills.              *)
(*                                                                         *)
(* A call of fix_credit_card_transactions() runs inside one database       *)
(* transaction (READ COMMITTED): its writes are kept in a per-call write   *)
(* set (pend) and reach the committed tables only when the call returns.   *)
(* Each BEGIN ... EXCEPTION block is a subtransaction: when a statement of *)
(* the block raises, the block's writes are rolled back to the savepoint   *)
(* (sp) taken at BEGIN, while plpgsql variables keep their values.         *)
(***************************************************************************)
EXTENDS Integers, Sequences, FiniteSets, TLC

\* ------------------------------------------------------------------ bounds
MaxTx == 2
MaxAmount == 1

\* --------------------------------------------------------------- constants
NULL == "null"
Procs == {1, 2}
CardIds == {"c1", "c2"}
UserIds == {"u1", "u2"}
GoalIds == {"g1"}
TxId(i) == "t" \o ToString(i)
TxIds == {TxId(i) : i \in 1..MaxTx}
Amounts == 1..MaxAmount
TotalLimit == MaxTx * MaxAmount + 2
Outstanding == {"open", "closed", "overdue"}
Placeholder == "Compra migrada"
\* a date string: the part before 'T' and the part after it, if any
Day == [day |-> "2025-09-01", time |-> NULL]
DayTime == [day |-> "2025-09-01", time |-> "10:00:00"]
NoDate == [day |-> NULL, time |-> NULL]

VARIABLES
  \* committed tables
  transactions,      \* poupeja_transactions: set of rows
  purchases,         \* credit_card_purchases: set of rows
  cards,             \* credit_cards: set of rows
  bills,             \* credit_card_bills: set of rows
  \* one call of fix_credit_card_transactions() per process
  pc,                \* position of the call
  rows,              \* rows of the FOR cursor not yet fetched
  transaction_record,\* the row being processed
  fixed_count, created_count, errors_array,
  pend,              \* uncommitted writes of the call
  sp,                \* savepoint of the current BEGIN block
  start,             \* committed tables as the candidate query saw them, and
                     \* the order in which its cursor returns the rows
  results,           \* rows returned by the completed calls, in order
  \* trigger and create-transaction edge function
  trigger_installed, \* prevent_direct_credit_card_transactions_trigger exists
  last_insert,       \* the last direct INSERT INTO poupeja_transactions
  req,               \* the request the edge function is handling
  goals,             \* current amount of each savings goal
  fx                 \* the request the repair endpoint is handling

storeVars == <<transactions, purchases, cards, bills>>
apiVars == <<trigger_installed, last_insert, req, goals, fx>>
runVars == <<pc, rows, transaction_record, fixed_count, created_count,
             errors_array, pend, sp, start, results>>
vars == <<storeVars, runVars, apiVars>>

\* ------------------------------------------------------------------ helpers
RECURSIVE SumBy(_, _)
SumBy(S, field) ==
  IF S = {} THEN 0
  ELSE LET x == CHOOSE y \in S : TRUE
       IN x[field] + SumBy(S \ {x}, field)

Orderings(S) ==
  {s \in [1..Cardinality(S) -> S] : \A i, j \in 1..Cardinality(S) : s[i] = s[j] => i = j}

NoWrites == [ins |-> {}, del |-> {}, billCards |-> {}, bills |-> {}, cards |-> {}]

\* the tables as a statement of call p sees them: committed rows plus own writes
ViewTransactions(p) == {t \in transactions : t.id \notin pend[p].del}
ViewPurchases(p) == purchases \cup pend[p].ins
ViewBills(p) ==
  {b \in bills : b.card_id \notin pend[p].billCards} \cup pend[p].bills
ViewCards(p) ==
  {c \in cards : \A n \in pend[p].cards : n.id # c.id} \cup pend[p].cards

\* ------------------------------------------------- candidate query (scanner)
Candidates(T, P, C) ==
  {t \in T :
     /\ \E c \in C : t.credit_card_id = c.id
     /\ t.type = "expense"
     /\ t.credit_card_id # NULL
     /\ ~ \E cp \in P : cp.transaction_id = t.id}

\* ------------------------------------------------------------ purchase row
FreshPurchaseId ==
  LET used == {x.id : x \in purchases \cup UNION {pend[q].ins : q \in Procs}}
  IN CHOOSE n \in 1..(Cardinality(used) + 1) : n \notin used

Coalesce(v, d) == IF v = NULL THEN d ELSE v

\* mutant: the description copied without COALESCE
MigratedPurchaseNoCoalesce(t, newId) ==
  [id |-> newId,
   card_id |-> t.credit_card_id,
   description |-> t.description,
   amount |-> t.amount,
   purchase_date |-> t.date,
   installments |-> 1,
   installment_amount |-> t.amount,
   is_installment |-> FALSE,
   category_id |-> t.category_id,
   transaction_id |-> t.id]

MigratedPurchase(t, newId) ==
  [id |-> newId,
   card_id |-> t.credit_card_id,
   description |-> Coalesce(t.description, Placeholder),
   amount |-> t.amount,
   purchase_date |-> t.date,
   installments |-> 1,
   installment_amount |-> t.amount,
   is_installment |-> FALSE,
   category_id |-> t.category_id,
   transaction_id |-> t.id]

\* ------------------------------------------------- bill generator (opaque)
\* auto_generate_credit_card_bills(card): afterwards the card has one open
\* bill whose remaining amount reflects the card's purchases.
GeneratedBills(B, P, card) ==
  {b \in B : b.card_id = card /\ b.status # "open"} \cup
  {[card_id |-> card, status |-> "open",
    remaining_amount |-> SumBy({x \in P : x.card_id = card}, "amount")]}

\* --------------------------------------------------------------- limit sweep
UsedLimit(B, card) ==
  SumBy({b \in B : b.card_id = card /\ b.status \in Outstanding}, "remaining_amount")

SweepTargets(T) == {t.credit_card_id : t \in {x \in T : x.credit_card_id # NULL}}

UpdateUsedLimit(C, B, T) ==
  {IF c.id \in SweepTargets(T)
     THEN [c EXCEPT !.used_limit = UsedLimit(B, c.id)]
     ELSE c : c \in C}

\* mutant: the second UPDATE forgets to subtract
UpdateAvailableLimitNoSubtract(C) ==
  {[c EXCEPT !.available_limit = c.total_limit] : c \in C}

UpdateAvailableLimit(C) ==
  {[c EXCEPT !.available_limit = c.total_limit - c.used_limit] : c \in C}

\* ------------------------------------------------------------ initial state
LegacyRows(id) ==
  [id : {id}, type : {"income", "expense"}, credit_card_id : CardIds \cup {NULL},
   amount : Amounts, description : {NULL}, date : {Day},
   category_id : {NULL}, goal_id : {NULL}, account_id : {NULL}, user_id : {"u1"}]

InitStore ==
  /\ \E present \in SUBSET TxIds :
       \E f \in [present -> UNION {LegacyRows(i) : i \in TxIds}] :
         /\ \A i \in present : f[i].id = i
         /\ transactions = {f[i] : i \in present}
  /\ \E linked \in {{}, {TxId(1)}} :
       purchases = {[id |-> 1, card_id |-> "c1", description |-> "Market",
                     amount |-> 1, purchase_date |-> Day,
                     installments |-> 1, installment_amount |-> 1,
                     is_installment |-> FALSE, category_id |-> NULL,
                     transaction_id |-> t] : t \in linked}
  /\ \E stale \in BOOLEAN :
       cards = {[id |-> c, user_id |-> IF c = "c1" THEN "u1" ELSE "u2",
                 total_limit |-> TotalLimit,
                 used_limit |-> IF stale THEN 1 ELSE 0,
                 available_limit |-> IF stale THEN 0 ELSE TotalLimit]
                : c \in CardIds}
  /\ \E B \in {{}, {[card_id |-> "c1", status |-> "closed", remaining_amount |-> 1],
                    [card_id |-> "c1", status |-> "paid", remaining_amount |-> 0]}} :
       bills = B

\* transaction_record before the first FETCH
NoRow == [id |-> NULL]

InitRun ==
  /\ pc = [p \in Procs |-> "idle"]
  /\ rows = [p \in Procs |-> <<>>]
  /\ transaction_record = [p \in Procs |-> NoRow]
  /\ fixed_count = [p \in Procs |-> 0]
  /\ created_count = [p \in Procs |-> 0]
  /\ errors_array = [p \in Procs |-> <<>>]
  /\ pend = [p \in Procs |-> NoWrites]
  /\ sp = [p \in Procs |-> NoWrites]
  /\ start = [p \in Procs |-> [transactions |-> {}, purchases |-> {}, order |-> <<>>]]
  /\ results = <<>>

NoRequest == [pc |-> "idle"]
NoInsert == [raised |-> FALSE]
NoCall == [pc |-> "idle"]

InitApi ==
  /\ trigger_installed = TRUE
  /\ last_insert = NoInsert
  /\ req = NoRequest
  /\ goals = [g \in GoalIds |-> 0]
  /\ fx = NoCall

Init == InitStore /\ InitRun /\ InitApi

\* one legacy row with every column varied
NextDay == [day |-> "2025-09-02", time |-> NULL]

FieldRows ==
  [id : {TxId(1)}, type : {"income", "expense"}, credit_card_id : CardIds \cup {NULL},
   amount : 1..2, description : {NULL, "", "Market"}, date : {Day, NextDay},
   category_id : {NULL, "cat_food"}, goal_id : {NULL}, account_id : {NULL},
   user_id : {"u1"}]

InitFields ==
  /\ transactions \in {{t} : t \in FieldRows}
  /\ purchases = {}
  /\ cards = {[id |-> c, user_id |-> IF c = "c1" THEN "u1" ELSE "u2",
               total_limit |-> TotalLimit, used_limit |-> 0,
               available_limit |-> TotalLimit] : c \in CardIds}
  /\ bills = {}
  /\ InitRun
  /\ InitApi

\* a smaller family of stores for the runs with several calls
InitSmall ==
  /\ Init
  /\ \A t \in transactions : t.credit_card_id \in {"c1", NULL}
  /\ purchases = {}
  /\ bills = {}
  /\ \A c \in cards : c.used_limit = 0

\* ----------------------------------------- fix_credit_card_transactions()
\* DECLARE ... BEGIN; FOR transaction_record IN SELECT ...: the cursor is
\* opened on the committed tables, in an order the query does not fix.
OpenCursor(p) ==
  /\ \E order \in Orderings(Candidates(transactions, purchases, cards)) :
       /\ rows' = [rows EXCEPT ![p] = order]
       /\ start' = [start EXCEPT ![p] = [transactions |-> transactions,
                                         purchases |-> purchases, order |-> order]]
  /\ fixed_count' = [fixed_count EXCEPT ![p] = 0]
  /\ created_count' = [created_count EXCEPT ![p] = 0]
  /\ errors_array' = [errors_array EXCEPT ![p] = <<>>]
  /\ pend' = [pend EXCEPT ![p] = NoWrites]
  /\ sp' = [sp EXCEPT ![p] = NoWrites]
  /\ transaction_record' = [transaction_record EXCEPT ![p] = NoRow]
  /\ pc' = [pc EXCEPT ![p] = "loop"]
  /\ UNCHANGED <<apiVars, storeVars, results>>

\* a call of the routine (again after a call that failed)
Scan(p) ==
  /\ pc[p] \in {"idle", "aborted"}
  /\ OpenCursor(p)

\* the candidate query itself raises: the call fails before any row
ScanRaises(p) ==
  /\ pc[p] = "idle"
  /\ pc' = [pc EXCEPT ![p] = "aborted"]
  /\ UNCHANGED <<apiVars, storeVars, rows, transaction_record, fixed_count, created_count,
                 errors_array, pend, sp, start, results>>

\* a second call right after the first one returned
ScanAgain(p) ==
  /\ pc[p] = "done"
  /\ Len(results) = 1
  /\ OpenCursor(p)

\* mutant: the loop takes the rows from the end of the cursor
FetchFromEnd(p) ==
  /\ pc[p] = "loop"
  /\ IF rows[p] = <<>>
       THEN /\ pc' = [pc EXCEPT ![p] = "sweep"]
            /\ UNCHANGED <<rows, transaction_record, sp>>
       ELSE /\ transaction_record' = [transaction_record EXCEPT
                                        ![p] = rows[p][Len(rows[p])]]
            /\ rows' = [rows EXCEPT ![p] = SubSeq(rows[p], 1, Len(rows[p]) - 1)]
            /\ sp' = [sp EXCEPT ![p] = pend[p]]
            /\ pc' = [pc EXCEPT ![p] = "insert"]
  /\ UNCHANGED <<apiVars, storeVars, fixed_count, created_count, errors_array, pend, start, results>>

\* LOOP: fetch the next row and enter the BEGIN block (savepoint), or leave
Fetch(p) ==
  /\ pc[p] = "loop"
  /\ IF rows[p] = <<>>
       THEN /\ pc' = [pc EXCEPT ![p] = "sweep"]
            /\ UNCHANGED <<rows, transaction_record, sp>>
       ELSE /\ transaction_record' = [transaction_record EXCEPT ![p] = Head(rows[p])]
            /\ rows' = [rows EXCEPT ![p] = Tail(rows[p])]
            /\ sp' = [sp EXCEPT ![p] = pend[p]]
            /\ pc' = [pc EXCEPT ![p] = "insert"]
  /\ UNCHANGED <<apiVars, storeVars, fixed_count, created_count, errors_array, pend, start, results>>

\* INSERT INTO credit_card_purchases ... RETURNING id; created_count + 1
InsertPurchase(p) ==
  /\ pc[p] = "insert"
  /\ pend' = [pend EXCEPT ![p].ins =
                @ \cup {MigratedPurchase(transaction_record[p], FreshPurchaseId)}]
  /\ created_count' = [created_count EXCEPT ![p] = @ + 1]
  /\ pc' = [pc EXCEPT ![p] = "delete"]
  /\ UNCHANGED <<apiVars, storeVars, rows, transaction_record, fixed_count, errors_array,
                 sp, start, results>>

\* DELETE FROM poupeja_transactions WHERE id = ...; fixed_count + 1.
\* The statement waits while another call holds an uncommitted delete of
\* the row; a row that is already gone is deleted zero times, without error.
DeleteTransaction(p) ==
  /\ pc[p] = "delete"
  /\ \A q \in Procs \ {p} : transaction_record[p].id \notin pend[q].del
  /\ pend' = [pend EXCEPT ![p].del =
                IF \E t \in ViewTransactions(p) : t.id = transaction_record[p].id
                  THEN @ \cup {transaction_record[p].id} ELSE @]
  /\ fixed_count' = [fixed_count EXCEPT ![p] = @ + 1]
  /\ pc' = [pc EXCEPT ![p] = "bill"]
  /\ UNCHANGED <<apiVars, storeVars, rows, transaction_record, created_count, errors_array,
                 sp, start, results>>

\* PERFORM auto_generate_credit_card_bills(credit_card_id)
GenerateBills(p) ==
  /\ pc[p] = "bill"
  /\ LET card == transaction_record[p].credit_card_id IN
       pend' = [pend EXCEPT
                  ![p].bills = {b \in @ : b.card_id # card} \cup
                               GeneratedBills(ViewBills(p), ViewPurchases(p), card),
                  ![p].billCards = @ \cup {card}]
  /\ pc' = [pc EXCEPT ![p] = "loop"]
  /\ UNCHANGED <<apiVars, storeVars, rows, transaction_record, fixed_count, created_count,
                 errors_array, sp, start, results>>

\* mutants of the handler: the error is swallowed; the block's writes are
\* kept; the block goes on with the next statement
ExceptionHandlerSilent(p, sqlerrm) ==
  /\ pend' = [pend EXCEPT ![p] = sp[p]]
  /\ pc' = [pc EXCEPT ![p] = "loop"]
  /\ UNCHANGED <<apiVars, storeVars, rows, transaction_record, fixed_count, created_count,
                 errors_array, sp, start, results>>

ExceptionHandlerNoRollback(p, sqlerrm) ==
  /\ errors_array' = [errors_array EXCEPT ![p] =
                        Append(@, [transaction_id |-> transaction_record[p].id,
                                   sqlerrm |-> sqlerrm])]
  /\ pc' = [pc EXCEPT ![p] = "loop"]
  /\ UNCHANGED <<apiVars, storeVars, rows, transaction_record, fixed_count, created_count,
                 pend, sp, start, results>>

ExceptionHandlerResume(p, sqlerrm) ==
  /\ errors_array' = [errors_array EXCEPT ![p] =
                        Append(@, [transaction_id |-> transaction_record[p].id,
                                   sqlerrm |-> sqlerrm])]
  /\ pc' = [pc EXCEPT ![p] = IF pc[p] = "insert" THEN "delete"
                             ELSE IF pc[p] = "delete" THEN "bill" ELSE "loop"]
  /\ UNCHANGED <<apiVars, storeVars, rows, transaction_record, fixed_count, created_count,
                 pend, sp, start, results>>

ExceptionHandlerRollbackAll(p, sqlerrm) ==
  /\ pend' = [pend EXCEPT ![p] = NoWrites]
  /\ errors_array' = [errors_array EXCEPT ![p] =
                        Append(@, [transaction_id |-> transaction_record[p].id,
                                   sqlerrm |-> sqlerrm])]
  /\ pc' = [pc EXCEPT ![p] = "loop"]
  /\ UNCHANGED <<apiVars, storeVars, rows, transaction_record, fixed_count, created_count,
                 sp, start, results>>

\* EXCEPTION WHEN OTHERS: the block's writes are rolled back to the
\* savepoint, the variables keep their values, the error is appended.
ExceptionHandler(p, sqlerrm) ==
  /\ pend' = [pend EXCEPT ![p] = sp[p]]
  /\ errors_array' = [errors_array EXCEPT ![p] =
                        Append(@, [transaction_id |-> transaction_record[p].id,
                                   sqlerrm |-> sqlerrm])]
  /\ pc' = [pc EXCEPT ![p] = "loop"]
  /\ UNCHANGED <<apiVars, storeVars, rows, transaction_record, fixed_count, created_count,
                 sp, start, results>>

InsertRaises(p) == pc[p] = "insert" /\ ExceptionHandler(p, "insert failed")
DeleteRaises(p) == pc[p] = "delete" /\ ExceptionHandler(p, "delete failed")
BillsRaise(p) == pc[p] = "bill" /\ ExceptionHandler(p, "bill generation failed")

\* UPDATE credit_cards SET used_limit ...; UPDATE credit_cards SET
\* available_limit ...  Both wait for the card rows another call has written.
LimitSweep(p) ==
  /\ pc[p] = "sweep"
  /\ \A q \in Procs \ {p} : pend[q].cards = {}
  /\ pend' = [pend EXCEPT ![p].cards =
                UpdateAvailableLimit(
                  UpdateUsedLimit(ViewCards(p), ViewBills(p), ViewTransactions(p)))]
  /\ pc' = [pc EXCEPT ![p] = "return"]
  /\ UNCHANGED <<apiVars, storeVars, rows, transaction_record, fixed_count, created_count,
                 errors_array, sp, start, results>>

\* a statement outside the BEGIN blocks raises: the call fails and its
\* whole transaction is rolled back
SweepRaises(p) ==
  /\ pc[p] = "sweep"
  /\ pend' = [pend EXCEPT ![p] = NoWrites]
  /\ pc' = [pc EXCEPT ![p] = "aborted"]
  /\ UNCHANGED <<apiVars, storeVars, rows, transaction_record, fixed_count, created_count,
                 errors_array, sp, start, results>>

\* RETURN QUERY SELECT fixed_count, created_count, errors_array; the call's
\* transaction commits
Result(p) ==
  [fixed_transactions |-> fixed_count[p],
   created_purchases |-> created_count[p],
   errors |-> errors_array[p]]

Return(p) ==
  /\ pc[p] = "return"
  /\ transactions' = ViewTransactions(p)
  /\ purchases' = ViewPurchases(p)
  /\ bills' = ViewBills(p)
  /\ cards' = ViewCards(p)
  /\ results' = Append(results, Result(p))
  /\ pend' = [pend EXCEPT ![p] = NoWrites]
  /\ pc' = [pc EXCEPT ![p] = "done"]
  /\ UNCHANGED <<apiVars, rows, transaction_record, fixed_count, created_count,
                 errors_array, sp, start>>

Step(p) ==
  \/ Scan(p)
  \/ ScanRaises(p)
  \/ Fetch(p)
  \/ InsertPurchase(p)
  \/ InsertRaises(p)
  \/ DeleteTransaction(p)
  \/ DeleteRaises(p)
  \/ GenerateBills(p)
  \/ BillsRaise(p)
  \/ LimitSweep(p)
  \/ SweepRaises(p)
  \/ Return(p)

\* ---------------------------------------------- SQL three-valued conditions
SqlEq(a, b) == IF a = NULL \/ b = NULL THEN "unknown" ELSE IF a = b THEN "true" ELSE "false"
SqlIsNotNull(a) == IF a = NULL THEN "false" ELSE "true"
SqlAnd(x, y) ==
  IF x = "false" \/ y = "false" THEN "false"
  ELSE IF x = "unknown" \/ y = "unknown" THEN "unknown" ELSE "true"
SqlOr(x, y) ==
  IF x = "true" \/ y = "true" THEN "true"
  ELSE IF x = "unknown" \/ y = "unknown" THEN "unknown" ELSE "false"

\* ------------------------- prevent_direct_credit_card_transactions() trigger
\* a mutant of the trigger function: OR in place of AND
prevent_direct_either(new_row) ==
  IF SqlOr(SqlEq(new_row.type, "expense"), SqlIsNotNull(new_row.credit_card_id)) = "true"
    THEN [raised |-> TRUE]
    ELSE [raised |-> FALSE, row |-> new_row]

\* IF NEW.type = 'expense' AND NEW.credit_card_id IS NOT NULL THEN RAISE
\* EXCEPTION ...; END IF; RETURN NEW (new_row);
prevent_direct_credit_card_transactions(new_row) ==
  IF SqlAnd(SqlEq(new_row.type, "expense"), SqlIsNotNull(new_row.credit_card_id)) = "true"
    THEN [raised |-> TRUE]
    ELSE [raised |-> FALSE, row |-> new_row]

\* BEFORE INSERT ON poupeja_transactions FOR EACH ROW: the outcome of an
\* insert of new_row, with the trigger when it exists
BeforeInsert(new_row) ==
  IF trigger_installed
    THEN prevent_direct_credit_card_transactions(new_row)
    ELSE [raised |-> FALSE, row |-> new_row]

\* the ids the table gives its rows
FreshTxId(pool) ==
  LET used == {t.id : t \in transactions}
  IN CHOOSE i \in pool : i \notin used

GuardPool == {TxId(1), TxId(2)}

DirectRows(id) ==
  [id : {id}, type : {"income", "expense", NULL}, credit_card_id : CardIds \cup {NULL},
   amount : Amounts, description : {NULL, "Market"}, date : {Day},
   category_id : {NULL}, goal_id : {NULL}, account_id : {NULL}, user_id : {"u1"}]

\* the first migration leaves the trigger commented out, the second creates it
InstallTrigger ==
  /\ ~ trigger_installed
  /\ trigger_installed' = TRUE
  /\ UNCHANGED <<storeVars, runVars, last_insert, req, goals, fx>>

\* an INSERT INTO poupeja_transactions by any client of the table
DirectInsert ==
  /\ \E i \in GuardPool : \A t \in transactions : t.id # i
  /\ \E new_row \in DirectRows(FreshTxId(GuardPool)) :
       LET out == BeforeInsert(new_row) IN
         /\ last_insert' = [raised |-> out.raised, new |-> new_row,
                            guarded |-> trigger_installed]
         /\ transactions' = IF out.raised THEN transactions
                            ELSE transactions \cup {out.row}
  /\ UNCHANGED <<purchases, cards, bills, runVars, trigger_installed, req, goals, fx>>

InitGuard ==
  /\ transactions = {}
  /\ purchases = {}
  /\ cards = {[id |-> c, user_id |-> IF c = "c1" THEN "u1" ELSE "u2",
               total_limit |-> TotalLimit, used_limit |-> 0,
               available_limit |-> TotalLimit] : c \in CardIds}
  /\ bills = {}
  /\ InitRun
  /\ trigger_installed = FALSE
  /\ last_insert = NoInsert
  /\ req = NoRequest
  /\ goals = [g \in GoalIds |-> 0]
  /\ fx = NoCall

NextGuard == InstallTrigger \/ DirectInsert
SpecGuard == InitGuard /\ [][NextGuard]_vars

\* ------------------------------------------- create-transaction edge function
\* poupeja_categories, read only
poupeja_categories ==
  {[id |-> "cat_food", name |-> "Food", type |-> "expense", user_id |-> "u1"],
   [id |-> "cat_outros_expense", name |-> "Outros", type |-> "expense", user_id |-> "u1"],
   [id |-> "cat_outros_income", name |-> "Outros", type |-> "income", user_id |-> "u1"]}

\* the JSON bodies a client may send (0 stands for a missing or zero amount)
RequestBodies ==
  [user_id : UserIds \cup {NULL}, type : {"income", "expense", NULL},
   amount : {0, -1} \cup Amounts, credit_card_id : CardIds \cup {NULL},
   category_id : {"cat_food", NULL}, category : {"Food", NULL},
   description : {"Market", NULL}, date : {Day, DayTime, NoDate},
   goal_id : GoalIds \cup {NULL}, account_id : {NULL}]

\* JavaScript !x and x || d on the values of the model
Falsy(x) == x = NULL \/ x = ""
FalsyNumber(n) == n = 0
OrElse(x, d) == IF Falsy(x) THEN d ELSE x

\* .single(): the row when exactly one matches, else no data
Single(S) == IF Cardinality(S) = 1 THEN CHOOSE x \in S : TRUE ELSE [id |-> NULL]

\* date.split('T')[0]
SplitT0(d) == [day |-> d.day, time |-> NULL]

Respond(status, type) ==
  req' = [req EXCEPT !.pc = "responded", !.status = status, !.type = type]

\* mutant of the branch condition: the wrong type literal
IsCreditCardExpenseWrongType(d) == d.type = "income" /\ ~ Falsy(d.credit_card_id)

\* transactionData.type === 'expense' && transactionData.credit_card_id
IsCreditCardExpense(d) == d.type = "expense" /\ ~ Falsy(d.credit_card_id)

\* OPTIONS and every method but POST are answered at once
ReceiveOther ==
  /\ req.pc = "idle"
  /\ \E m \in {"OPTIONS", "GET"} :
       req' = [pc |-> "responded", method |-> m, data |-> NULL,
               status |-> IF m = "OPTIONS" THEN 200 ELSE 405, type |-> NULL,
               categoryId |-> NULL, attempt |-> NoInsert, calls |-> {},
               failed |-> {}]
  /\ UNCHANGED <<storeVars, runVars, trigger_installed, last_insert, goals, fx>>

\* POST: transactionData = await req.json()
Receive ==
  /\ req.pc = "idle"
  /\ \E d \in RequestBodies :
       req' = [pc |-> "validate", method |-> "POST", data |-> d, status |-> 0,
               type |-> NULL, categoryId |-> NULL, attempt |-> NoInsert, calls |-> {},
               failed |-> {}]
  /\ UNCHANGED <<storeVars, runVars, trigger_installed, last_insert, goals, fx>>

\* required fields, then the branch on a credit-card expense
Validate ==
  /\ req.pc = "validate"
  /\ IF Falsy(req.data.user_id) \/ Falsy(req.data.type) \/ FalsyNumber(req.data.amount)
       THEN Respond(400, "missing fields")
       ELSE req' = [req EXCEPT !.pc = IF IsCreditCardExpense(req.data)
                                        THEN "card" ELSE "category"]
  /\ UNCHANGED <<storeVars, runVars, trigger_installed, last_insert, goals, fx>>

\* mutant: the card looked up by id alone
CheckCardAnyOwner ==
  /\ req.pc = "card"
  /\ IF \A c \in cards : c.id # req.data.credit_card_id
       THEN Respond(403, "access denied")
       ELSE req' = [req EXCEPT !.pc = "purchase"]
  /\ UNCHANGED <<storeVars, runVars, trigger_installed, last_insert, goals, fx>>

\* credit_cards: .eq('id', credit_card_id).eq('user_id', user_id).single()
CheckCard ==
  /\ req.pc = "card"
  /\ LET creditCard == Single({c \in cards : c.id = req.data.credit_card_id
                                              /\ c.user_id = req.data.user_id})
     IN IF creditCard.id = NULL
          THEN Respond(403, "access denied")
          ELSE req' = [req EXCEPT !.pc = "purchase"]
  /\ UNCHANGED <<storeVars, runVars, trigger_installed, last_insert, goals, fx>>

\* the card query itself fails: cardError
CheckCardFails ==
  /\ req.pc = "card"
  /\ Respond(403, "access denied")
  /\ UNCHANGED <<storeVars, runVars, trigger_installed, last_insert, goals, fx>>

RequestPurchase(d, newId) ==
  [id |-> newId,
   card_id |-> d.credit_card_id,
   description |-> OrElse(d.description, "Compra via n8n"),
   amount |-> d.amount,
   purchase_date |-> SplitT0(d.date),
   installments |-> 1,
   installment_amount |-> d.amount,
   is_installment |-> FALSE,
   category_id |-> d.category_id,
   transaction_id |-> NULL]

\* insert into credit_card_purchases; a missing date makes split throw,
\* which the outer catch answers with 500
InsertRequestPurchase ==
  /\ req.pc = "purchase"
  /\ IF req.data.date = NoDate
       THEN /\ Respond(500, "internal error")
            /\ UNCHANGED purchases
       ELSE /\ purchases' = purchases \cup {RequestPurchase(req.data, FreshPurchaseId)}
            /\ req' = [req EXCEPT !.pc = "bills"]
  /\ UNCHANGED <<transactions, cards, bills, runVars, trigger_installed, last_insert, goals, fx>>

\* purchaseError
InsertRequestPurchaseFails ==
  /\ req.pc = "purchase"
  /\ req.data.date # NoDate
  /\ Respond(500, "purchase failed")
  /\ UNCHANGED <<storeVars, runVars, trigger_installed, last_insert, goals, fx>>

\* mutant: billError answered with 500
RequestBillsStrict ==
  /\ req.pc = "bills"
  /\ \E billError \in BOOLEAN :
       /\ bills' = IF billError THEN bills
                   ELSE {b \in bills : b.card_id # req.data.credit_card_id} \cup
                        GeneratedBills(bills, purchases, req.data.credit_card_id)
       /\ req' = [req EXCEPT !.pc = "responded",
                             !.status = IF billError THEN 500 ELSE 200,
                             !.type = IF billError THEN "bills failed"
                                      ELSE "credit_card_purchase",
                             !.calls = @ \cup {"auto_generate_credit_card_bills"},
                             !.failed = IF billError
                                          THEN @ \cup {"auto_generate_credit_card_bills"}
                                          ELSE @]
  /\ UNCHANGED <<transactions, purchases, cards, runVars, trigger_installed,
                 last_insert, goals, fx>>

\* rpc auto_generate_credit_card_bills; billError is only logged
RequestBills ==
  /\ req.pc = "bills"
  /\ \E billError \in BOOLEAN :
       /\ bills' = IF billError THEN bills
                   ELSE {b \in bills : b.card_id # req.data.credit_card_id} \cup
                        GeneratedBills(bills, purchases, req.data.credit_card_id)
       /\ req' = [req EXCEPT !.pc = "responded", !.status = 200,
                             !.type = "credit_card_purchase",
                             !.calls = @ \cup {"auto_generate_credit_card_bills"},
                             !.failed = IF billError
                                          THEN @ \cup {"auto_generate_credit_card_bills"}
                                          ELSE @]
  /\ UNCHANGED <<transactions, purchases, cards, runVars, trigger_installed,
                 last_insert, goals, fx>>

\* category_id, else the category by name, else 'Outros', else 400
ResolvedCategory(d) ==
  LET given == d.category_id
      byName == IF Falsy(given) /\ ~ Falsy(d.category)
                  THEN Single({c \in poupeja_categories :
                                 c.name = d.category /\ c.type = d.type
                                 /\ c.user_id = d.user_id}).id
                  ELSE NULL
      first == IF ~ Falsy(byName) THEN byName ELSE given
  IN IF ~ Falsy(first) THEN first
     ELSE Single({c \in poupeja_categories :
                    c.name = "Outros" /\ c.type = d.type /\ c.user_id = d.user_id}).id

\* mutant: the insert follows even when no category was found
ResolveCategoryUngated ==
  /\ req.pc = "category"
  /\ req' = [req EXCEPT !.pc = "insert", !.categoryId = ResolvedCategory(req.data)]
  /\ UNCHANGED <<storeVars, runVars, trigger_installed, last_insert, goals, fx>>

ResolveCategory ==
  /\ req.pc = "category"
  /\ LET categoryId == ResolvedCategory(req.data) IN
       IF Falsy(categoryId)
         THEN Respond(400, "no category")
         ELSE req' = [req EXCEPT !.pc = "insert", !.categoryId = categoryId]
  /\ UNCHANGED <<storeVars, runVars, trigger_installed, last_insert, goals, fx>>

\* the row of the regular insert: no credit_card_id is written
RequestTransaction(d, categoryId, newId) ==
  [id |-> newId,
   type |-> d.type,
   credit_card_id |-> NULL,
   amount |-> d.amount,
   description |-> OrElse(d.description, ""),
   date |-> d.date,
   category_id |-> categoryId,
   goal_id |-> OrElse(d.goal_id, NULL),
   account_id |-> OrElse(d.account_id, NULL),
   user_id |-> d.user_id]

RequestPool == {TxId(1)}

\* insert into poupeja_transactions, through the trigger
InsertRequestTransaction ==
  /\ req.pc = "insert"
  /\ LET new_row == RequestTransaction(req.data, req.categoryId, FreshTxId(RequestPool))
         out == BeforeInsert(new_row)
     IN IF out.raised
          THEN /\ req' = [req EXCEPT !.pc = "responded", !.status = 500,
                                     !.type = "transaction failed",
                                     !.attempt = [raised |-> TRUE, new |-> new_row]]
               /\ UNCHANGED transactions
          ELSE /\ transactions' = transactions \cup {out.row}
               /\ req' = [req EXCEPT
                            !.attempt = [raised |-> FALSE, new |-> new_row],
                            !.pc = IF req.data.type = "income" /\ ~ Falsy(req.data.goal_id)
                                     THEN "goal" ELSE "responded",
                            !.status = IF req.data.type = "income" /\ ~ Falsy(req.data.goal_id)
                                         THEN 0 ELSE 200,
                            !.type = IF req.data.type = "income" /\ ~ Falsy(req.data.goal_id)
                                       THEN NULL ELSE "transaction"]
  /\ UNCHANGED <<purchases, cards, bills, runVars, trigger_installed, last_insert, goals, fx>>

\* transactionError from the table
InsertRequestTransactionFails ==
  /\ req.pc = "insert"
  /\ Respond(500, "transaction failed")
  /\ UNCHANGED <<storeVars, runVars, trigger_installed, last_insert, goals, fx>>

\* rpc update_goal_amount; goalError is only logged
UpdateGoal ==
  /\ req.pc = "goal"
  /\ \E goalError \in BOOLEAN :
       /\ goals' = IF goalError THEN goals
                   ELSE [goals EXCEPT ![req.data.goal_id] = @ + req.data.amount]
       /\ req' = [req EXCEPT !.pc = "responded", !.status = 200, !.type = "transaction",
                             !.calls = @ \cup {"update_goal_amount"},
                             !.failed = IF goalError THEN @ \cup {"update_goal_amount"}
                                        ELSE @]
  /\ UNCHANGED <<storeVars, runVars, trigger_installed, last_insert, fx>>

InitCreate ==
  /\ transactions = {}
  /\ purchases = {}
  /\ cards = {[id |-> c, user_id |-> IF c = "c1" THEN "u1" ELSE "u2",
               total_limit |-> TotalLimit, used_limit |-> 0,
               available_limit |-> TotalLimit] : c \in CardIds}
  /\ bills = {}
  /\ InitRun
  /\ InitApi

NextCreate ==
  \/ ReceiveOther
  \/ Receive
  \/ Validate
  \/ CheckCard
  \/ CheckCardFails
  \/ InsertRequestPurchase
  \/ InsertRequestPurchaseFails
  \/ RequestBills
  \/ ResolveCategory
  \/ InsertRequestTransaction
  \/ InsertRequestTransactionFails
  \/ UpdateGoal
SpecCreate == InitCreate /\ [][NextCreate]_vars

\* ------------------------------ fix-credit-card-transactions edge function
\* the Authorization header: absent, or a string held as its pieces
HeaderValues ==
  {<<>>, <<"Bearer ", "admin-jwt">>, <<"admin-jwt">>,
   <<"Bearer ", "user-jwt">>, <<"Bearer ", "expired-jwt">>}
Headers ==
  {[present |-> FALSE, value |-> <<>>]} \cup
  {[present |-> TRUE, value |-> v] : v \in HeaderValues}

\* String.prototype.replace(piece, ''): the first occurrence only
RECURSIVE Replace(_, _)
Replace(str, piece) ==
  IF str = <<>> THEN <<>>
  ELSE IF Head(str) = piece THEN Tail(str)
  ELSE <<Head(str)>> \o Replace(Tail(str), piece)

\* auth.getUser(token): the user of a live access token
GetUser(token) ==
  IF token = <<"admin-jwt">> THEN "u1"
  ELSE IF token = <<"user-jwt">> THEN "u2"
  ELSE NULL

\* rpc is_admin(user_id)
Admins == {"u1"}
is_admin(user_id) == user_id \in Admins

\* the JSON bodies of a POST that parse
FixBodies == {[action |-> "fix"], [action |-> "status"], [action |-> NULL]}
NoBody == [action |-> NULL]

FxRespond(status, error) ==
  fx' = [fx EXCEPT !.pc = "responded", !.status = status, !.error = error]

\* OPTIONS is answered before the try block
FxReceive ==
  /\ fx.pc = "idle"
  /\ \E m \in {"OPTIONS", "GET", "POST", "PUT"}, h \in Headers, parses \in BOOLEAN :
       \E b \in IF m = "POST" /\ parses THEN FixBodies ELSE {NoBody} :
         /\ m # "POST" => parses
         /\ fx' = [pc |-> IF m = "OPTIONS" THEN "responded" ELSE "header",
                   method |-> m, header |-> h, body |-> b, parses |-> parses,
                   user |-> NULL, userError |-> FALSE, status |-> 200, error |-> NULL,
                   scanned |-> FALSE, lost |-> {},
                   result |-> [transactions_to_fix |-> 0, transactions |-> {}]]
  /\ UNCHANGED <<storeVars, runVars, trigger_installed, last_insert, req, goals>>

\* if (!authHeader)
FxHeader ==
  /\ fx.pc = "header"
  /\ IF ~ fx.header.present \/ fx.header.value = <<>>
       THEN FxRespond(401, "Authorization header required")
       ELSE fx' = [fx EXCEPT !.pc = "user"]
  /\ UNCHANGED <<storeVars, runVars, trigger_installed, last_insert, req, goals>>

\* auth.getUser(authHeader.replace('Bearer ', '')); the call may fail
FxGetUser ==
  /\ fx.pc = "user"
  /\ \E userError \in BOOLEAN :
       LET user == IF userError THEN NULL
                   ELSE GetUser(Replace(fx.header.value, "Bearer "))
       IN IF userError \/ user = NULL
            THEN fx' = [fx EXCEPT !.pc = "responded", !.status = 401,
                                  !.error = "Invalid authentication",
                                  !.userError = userError]
            ELSE fx' = [fx EXCEPT !.pc = "admin", !.user = user]
  /\ UNCHANGED <<storeVars, runVars, trigger_installed, last_insert, req, goals>>

\* mutant: the admin check left out
FxIsAdminAnyUser ==
  /\ fx.pc = "admin"
  /\ fx' = [fx EXCEPT !.pc = "method"]
  /\ UNCHANGED <<storeVars, runVars, trigger_installed, last_insert, req, goals>>

\* rpc is_admin; its error is not read, a failed call leaves isAdmin empty
FxIsAdmin ==
  /\ fx.pc = "admin"
  /\ \E rpcFails \in BOOLEAN :
       LET isAdmin == ~ rpcFails /\ is_admin(fx.user)
       IN IF ~ isAdmin
            THEN FxRespond(403, "Admin access required")
            ELSE fx' = [fx EXCEPT !.pc = "method"]
  /\ UNCHANGED <<storeVars, runVars, trigger_installed, last_insert, req, goals>>

\* the branch on the method; req.json() throws on a body that does not parse
FxMethod ==
  /\ fx.pc = "method"
  /\ IF fx.method = "GET" THEN fx' = [fx EXCEPT !.pc = "query"]
     ELSE IF fx.method = "POST"
       THEN IF ~ fx.parses THEN FxRespond(500, "Internal server error")
            ELSE IF fx.body.action = "fix" THEN fx' = [fx EXCEPT !.pc = "rpc"]
            ELSE FxRespond(400, "Invalid action")
     ELSE FxRespond(405, "Method not allowed")
  /\ UNCHANGED <<storeVars, runVars, trigger_installed, last_insert, req, goals>>

\* poupeja_transactions with credit_cards!inner, type = expense,
\* credit_card_id not null
ProblematicTransactions(T, C) ==
  {t \in T : /\ \E c \in C : c.id = t.credit_card_id
             /\ t.type = "expense"
             /\ t.credit_card_id # NULL}

\* credit_card_purchases .eq('transaction_id', id).single() has data when
\* exactly one row matches and the lookup does not fail
ExistingPurchase(P, id, lost) ==
  id \notin lost /\ Cardinality({cp \in P : cp.transaction_id = id}) = 1

\* the rows the GET handler reports; lost: the lookups that failed
ReportingScan(T, P, C, lost) ==
  {[id |-> t.id, description |-> t.description, amount |-> t.amount,
    date |-> t.date, credit_card_id |-> t.credit_card_id]
     : t \in {x \in ProblematicTransactions(T, C) : ~ ExistingPurchase(P, x.id, lost)}}

\* GET: the query and the filter loop
FxQuery ==
  /\ fx.pc = "query"
  /\ \E lost \in SUBSET {t.id : t \in ProblematicTransactions(transactions, cards)} :
       LET transactionsToFix == ReportingScan(transactions, purchases, cards, lost)
       IN fx' = [fx EXCEPT !.pc = "responded", !.scanned = TRUE, !.lost = lost,
                           !.result = [transactions_to_fix |-> Cardinality(transactionsToFix),
                                       transactions |-> transactionsToFix]]
  /\ UNCHANGED <<storeVars, runVars, trigger_installed, last_insert, req, goals>>

\* queryError
FxQueryFails ==
  /\ fx.pc = "query"
  /\ FxRespond(500, "Failed to query transactions")
  /\ UNCHANGED <<storeVars, runVars, trigger_installed, last_insert, req, goals>>

\* POST fix: rpc('fix_credit_card_transactions') runs the routine
FxRpc ==
  /\ fx.pc = "rpc"
  /\ pc[1] # "aborted"
  /\ Step(1)

\* the rpc returned: error, or data?.[0]
FxRpcReturns ==
  /\ fx.pc = "rpc"
  /\ \/ /\ pc[1] = "aborted"
        /\ FxRespond(500, "Failed to execute fix")
     \/ /\ pc[1] = "done"
        /\ fx' = [fx EXCEPT !.pc = "responded", !.result = results[Len(results)]]
  /\ UNCHANGED <<storeVars, runVars, trigger_installed, last_insert, req, goals>>

\* a Purchase that references Transaction t
LinkedPurchase(n, t) ==
  [id |-> n, card_id |-> "c1", description |-> "Market",
   amount |-> 1, purchase_date |-> Day,
   installments |-> 1, installment_amount |-> 1,
   is_installment |-> FALSE, category_id |-> NULL,
   transaction_id |-> t]

\* the tables hold no constraint on credit_card_purchases.transaction_id
InitEndpoint ==
  /\ \E present \in SUBSET TxIds :
       \E f \in [present -> UNION {LegacyRows(i) : i \in TxIds}] :
         /\ \A i \in present : f[i].id = i /\ f[i].credit_card_id \in {"c1", NULL}
         /\ transactions = {f[i] : i \in present}
  /\ purchases \in SUBSET {LinkedPurchase(1, TxId(1)), LinkedPurchase(2, TxId(1))}
  /\ cards = {[id |-> c, user_id |-> IF c = "c1" THEN "u1" ELSE "u2",
               total_limit |-> TotalLimit, used_limit |-> 0,
               available_limit |-> TotalLimit] : c \in CardIds}
  /\ bills = {}
  /\ InitRun
  /\ InitApi

NextEndpoint ==
  \/ FxReceive
  \/ FxHeader
  \/ FxGetUser
  \/ FxIsAdmin
  \/ FxMethod
  \/ FxQuery
  \/ FxQueryFails
  \/ FxRpc
  \/ FxRpcReturns
SpecEndpoint == InitEndpoint /\ [][NextEndpoint]_vars

\* one call of the repair routine on an arbitrary store
Next == Step(1)
Spec == Init /\ [][Next]_vars

\* two calls in succession
NextTwice == Step(1) \/ ScanAgain(1)
SpecTwice == InitSmall /\ [][NextTwice]_vars

\* one call of the repair routine on one row of any content
SpecFields == InitFields /\ [][Next]_vars

\* one call that, once started, is run to its end by the database; every
\* step of the call moves its position
SpecLive == InitSmall /\ [][Next]_vars /\ WF_pc(Next)

\* concurrent calls of the repair routine
NextConc == \E p \in Procs : Step(p)
SpecConc == InitSmall /\ [][NextConc]_vars

\* ------------------------------------------------------- notions of the claims
\* a flagged Transaction: a credit-card expense without a Purchase
Flagged(T, P) ==
  {t \in T : /\ t.type = "expense"
             /\ t.credit_card_id # NULL
             /\ ~ \E cp \in P : cp.transaction_id = t.id}

FlaggedAtStart(p) == Flagged(start[p].transactions, start[p].purchases)
Exists(id) == \E t \in transactions : t.id = id
PurchasesOf(id) == {cp \in purchases : cp.transaction_id = id}
ErrorsOf(p, id) == {i \in 1..Len(errors_array[p]) : errors_array[p][i].transaction_id = id}
ErrorsBy(p, sqlerrm) == {i \in 1..Len(errors_array[p]) : errors_array[p][i].sqlerrm = sqlerrm}
Migrated(p) == {t \in FlaggedAtStart(p) : ~ Exists(t.id)}
Zero == [fixed_transactions |-> 0, created_purchases |-> 0, errors |-> <<>>]

\* C1: after a call returns, every Transaction flagged at its start is
\* either migrated (a Purchase references it and it is gone) or still there
\* with an error entry naming it; never still there without an error entry,
\* never gone without a Purchase.
C1_MigratedOrReported ==
  pc[1] = "done" =>
    \A t \in FlaggedAtStart(1) :
      /\ (PurchasesOf(t.id) # {} /\ ~ Exists(t.id))
           \/ (Exists(t.id) /\ ErrorsOf(1, t.id) # {})
      /\ ~ ((PurchasesOf(t.id) # {} /\ ~ Exists(t.id))
              /\ (Exists(t.id) /\ ErrorsOf(1, t.id) # {}))

C1_Witness ==
  /\ pc[1] = "done"
  /\ \E t, u \in FlaggedAtStart(1) :
       /\ PurchasesOf(t.id) # {} /\ ~ Exists(t.id)
       /\ Exists(u.id) /\ ErrorsOf(1, u.id) # {}

\* C2: in the returned row, fixed_transactions is the number of source
\* Transactions whose deletion by the call persists and created_purchases
\* the number of Purchases inserted by the call that persist.
C2_CountsMatchStore ==
  pc[1] = "done" =>
    /\ fixed_count[1] = Cardinality({t \in start[1].transactions : ~ Exists(t.id)})
    /\ created_count[1] = Cardinality(purchases \ start[1].purchases)

\* C3: a row whose insert and delete succeeded and whose bill generation
\* failed stays migrated: its Purchase is in the store and its Transaction
\* is gone.
C3_BillFailureKeepsMigration ==
  pc[1] = "done" =>
    \A i \in ErrorsBy(1, "bill generation failed") :
      LET id == errors_array[1][i].transaction_id IN
        PurchasesOf(id) # {} /\ ~ Exists(id)

\* C4: when the insert of a row fails, the delete and the bill generation
\* are skipped and the counters keep their values (the step), and after the
\* call the Transaction is still there, no Purchase references it and
\* exactly one error entry names it (the final state).
C4_InsertFailureState ==
  pc[1] = "done" =>
    \A i \in ErrorsBy(1, "insert failed") :
      LET id == errors_array[1][i].transaction_id IN
        /\ Exists(id)
        /\ PurchasesOf(id) = {}
        /\ Cardinality(ErrorsOf(1, id)) = 1

C4_InsertFailureStep ==
  (pc[1] = "insert" /\ pc'[1] # "delete") =>
    /\ pc'[1] = "loop"
    /\ fixed_count'[1] = fixed_count[1]
    /\ created_count'[1] = created_count[1]
    /\ pend'[1] = pend[1]
    /\ Len(errors_array'[1]) = Len(errors_array[1]) + 1

C4_InsertFailure == [](C4_InsertFailureState) /\ [][C4_InsertFailureStep]_vars

C4_Witness ==
  /\ pc[1] = "done"
  /\ ErrorsBy(1, "insert failed") # {}
  /\ fixed_count[1] > 0

\* C5: in the committed tables, at every moment during and after a call,
\* no Transaction flagged at the scan is there together with a Purchase the
\* call created for it, and none is gone without a Purchase referencing it.
C5_PairAtomic ==
  \A t \in FlaggedAtStart(1) :
    /\ ~ (Exists(t.id) /\ PurchasesOf(t.id) \ start[1].purchases # {})
    /\ ~ (~ Exists(t.id) /\ PurchasesOf(t.id) = {})

C5_Witness ==
  /\ pc[1] = "done"
  /\ ErrorsBy(1, "delete failed") # {}
  /\ Migrated(1) # {}

\* C6 as stated: the second of two calls in succession returns 0, 0 and no
\* errors, whatever the first call returned.
C6_SecondCallZero ==
  Len(results) = 2 => results[2] = Zero

\* C6 amended: the second call returns 0, 0 and no errors when the first
\* call returned no errors.
C6_SecondCallZeroAfterCleanCall ==
  (Len(results) = 2 /\ results[1].errors = <<>>) => results[2] = Zero

C6_Witness ==
  /\ Len(results) = 2
  /\ results[1].errors = <<>>
  /\ results[1].fixed_transactions > 0

\* C9: under concurrent calls, at most one Purchase references each
\* Transaction at every moment.
C9_AtMostOnePurchase ==
  \A id \in TxIds : Cardinality(PurchasesOf(id)) <= 1

\* C10: after a call returns, every Card of a Transaction migrated by the
\* call has used_limit equal to the sum of the remaining amounts of its
\* open, closed and overdue Bills.
C10_MigratedCardsRecalculated ==
  pc[1] = "done" =>
    \A t \in Migrated(1) : \A c \in cards :
      c.id = t.credit_card_id => c.used_limit = UsedLimit(bills, c.id)

\* C7: with the trigger installed, an insert into poupeja_transactions is
\* rejected, leaving the table as it was, exactly when the new row has
\* type = 'expense' and a credit_card_id; every other insert passes with
\* the row as given.
C7_GuardStep ==
  (last_insert' # last_insert /\ last_insert'.guarded) =>
    LET new_row == last_insert'.new IN
      /\ last_insert'.raised <=> (new_row.type = "expense" /\ new_row.credit_card_id # NULL)
      /\ last_insert'.raised => transactions' = transactions
      /\ ~ last_insert'.raised => (new_row \notin transactions /\ transactions' = transactions \cup {new_row})

C7_GuardRejectsExactly == [][C7_GuardStep]_vars

C7_Witness ==
  /\ trigger_installed
  /\ last_insert.raised
  /\ last_insert.guarded
  /\ last_insert.new.description = "Market"
  /\ \E t \in transactions : t.type = NULL /\ t.credit_card_id # NULL

\* C8: a request with type = 'expense' and a credit_card_id never inserts
\* into poupeja_transactions and, answered with success, has inserted
\* exactly one Purchase; and no request makes the entry point attempt an
\* insert into poupeja_transactions that the trigger rejects.
C8_CardExpenseBypassesTransactions ==
  req.pc # "idle" /\ req.method = "POST" =>
    /\ (req.data.type = "expense" /\ req.data.credit_card_id # NULL) =>
         /\ transactions = {}
         /\ req.attempt = NoInsert
         /\ req.status = 200 =>
              /\ req.type = "credit_card_purchase"
              /\ Cardinality(purchases) = 1
    /\ ~ req.attempt.raised
    /\ req.attempt # NoInsert =>
         ~ (req.attempt.new.type = "expense" /\ req.attempt.new.credit_card_id # NULL)

C8_Witness ==
  /\ req.pc = "responded"
  /\ req.method = "POST"
  /\ req.data.type = "expense"
  /\ req.data.credit_card_id # NULL
  /\ req.status = 200
  /\ Cardinality(purchases) = 1
  /\ transactions = {}

\* C11: after a call returns, every Card has available_limit =
\* total_limit - used_limit, whatever its limit fields were before and
\* whether or not a migration touched it.
C11_AvailableLimitConsistent ==
  pc[1] = "done" =>
    \A c \in cards : c.available_limit = c.total_limit - c.used_limit

C11_Witness ==
  /\ pc[1] = "done"
  /\ Migrated(1) # {}
  /\ \E c \in cards :
       /\ c.used_limit = 1
       /\ c.available_limit = TotalLimit - 1
       /\ \A t \in FlaggedAtStart(1) : t.credit_card_id # c.id

\* C12: a failure after the scan (of the limit sweep in particular) leaves
\* the rows the call had migrated migrated: their Purchase is in the store
\* and their Transaction is gone.
C12_SweepFailureKeepsMigrations ==
  pc[1] = "aborted" =>
    \A t \in FlaggedAtStart(1) :
      ErrorsOf(1, t.id) = {} => (PurchasesOf(t.id) # {} /\ ~ Exists(t.id))

\* C13: a failure while migrating one row neither undoes the rows migrated
\* before it nor stops the call (the step); after the call every scanned row
\* has been attempted and every row without a failure is migrated (the
\* final state).
C13_RowFailureStep ==
  (Len(errors_array'[1]) = Len(errors_array[1]) + 1) =>
    /\ pc'[1] = "loop"
    /\ rows'[1] = rows[1]
    /\ sp[1].ins \subseteq pend'[1].ins
    /\ sp[1].del \subseteq pend'[1].del
    /\ \A q \in FlaggedAtStart(1) :
         (q.id # transaction_record[1].id /\ q.id \in pend[1].del) => q.id \in pend'[1].del

C13_RowFailureState ==
  pc[1] = "done" =>
    /\ rows[1] = <<>>
    /\ \A t \in FlaggedAtStart(1) :
         ErrorsOf(1, t.id) = {} <=> (PurchasesOf(t.id) # {} /\ ~ Exists(t.id))

C13_RowFailureDomain == [](C13_RowFailureState) /\ [][C13_RowFailureStep]_vars

C13_Witness ==
  /\ pc[1] = "loop"
  /\ rows[1] = <<>>
  /\ errors_array[1] # <<>>
  /\ errors_array[1][Len(errors_array[1])].transaction_id = transaction_record[1].id
  /\ pend[1].del # {}

\* C16: the Purchase created for a migrated Transaction T copies T:
\* card_id = T.credit_card_id, amount = T.amount, purchase_date = T.date,
\* installments = 1, installment_amount = T.amount, is_installment = false,
\* category_id = T.category_id, transaction_id = T.id, and description =
\* T.description when T has one, the placeholder string otherwise.
C16_PurchaseCopiesTransaction ==
  pc[1] = "done" =>
    \A t \in Migrated(1) : \A cp \in PurchasesOf(t.id) :
      /\ cp.card_id = t.credit_card_id
      /\ cp.amount = t.amount
      /\ cp.purchase_date = t.date
      /\ cp.installments = 1
      /\ cp.installment_amount = t.amount
      /\ cp.is_installment = FALSE
      /\ cp.category_id = t.category_id
      /\ cp.transaction_id = t.id
      /\ cp.description = IF t.description # NULL THEN t.description ELSE "Compra migrada"

\* a row without description, with a category, amount 2 and the later date
\* has been migrated
C16_Witness ==
  /\ pc[1] = "done"
  /\ \E t \in Migrated(1) :
       /\ t.description = NULL /\ t.category_id = "cat_food"
       /\ t.amount = 2 /\ t.date = NextDay /\ t.credit_card_id = "c2"
       /\ \E cp \in PurchasesOf(t.id) : cp.description = "Compra migrada"

\* C14: the reporting scan of the GET handler and the candidate query of the
\* routine select the same Transactions on every store, namely the expenses
\* with a card and no Purchase referencing them, whether zero, one or several
\* Purchases reference a Transaction.
C14_ScannersAgree ==
  (fx.pc = "responded" /\ fx.scanned /\ fx.lost = {}) =>
    LET reported == {r.id : r \in fx.result.transactions} IN
      /\ reported = {t.id : t \in Candidates(transactions, purchases, cards)}
      /\ reported = {t.id : t \in Flagged(transactions, purchases)}
      /\ fx.result.transactions_to_fix = Cardinality(Flagged(transactions, purchases))

\* C15: scanning right after a call returns none of the Transactions the
\* call migrated, and the Transactions flagged before the call that the scan
\* no longer returns are as many as the reported fixed_transactions.
C15_ScanAfterRun ==
  pc[1] = "done" =>
    LET byQuery == {t.id : t \in Candidates(transactions, purchases, cards)}
        byGet == {r.id : r \in ReportingScan(transactions, purchases, cards, {})}
    IN /\ \A t \in Migrated(1) : t.id \notin byQuery /\ t.id \notin byGet
       /\ Cardinality({t \in FlaggedAtStart(1) : t.id \notin byQuery})
            = results[1].fixed_transactions
       /\ Cardinality({t \in FlaggedAtStart(1) : t.id \notin byGet})
            = results[1].fixed_transactions

\* C17: the endpoint scans or repairs only for a request whose Authorization
\* header is present and whose token resolves to an admin; a request past the
\* preflight without header or with an invalid token is answered 401, one of
\* a user who is not an admin 403 (401 when the token lookup itself failed),
\* in both cases with no scan and no repair; an admin's POST with an action
\* other than 'fix' is answered 400 with no repair; the store changes only
\* while the repair runs.
Token == Replace(fx.header.value, "Bearer ")
Authenticated == fx.header.present /\ fx.header.value # <<>> /\ GetUser(Token) # NULL
Authorized == Authenticated /\ GetUser(Token) \in Admins
Repairing == pc[1] # "idle"

C17_AdminOnlyState ==
  fx.pc # "idle" =>
    /\ fx.scanned => Authorized /\ fx.method = "GET"
    /\ Repairing => Authorized /\ fx.method = "POST" /\ fx.body.action = "fix"
    /\ (fx.pc = "responded" /\ fx.method # "OPTIONS") =>
         /\ ~ Authenticated => fx.status = 401
         /\ (Authenticated /\ ~ Authorized) =>
              fx.status = IF fx.userError THEN 401 ELSE 403
         /\ (Authorized /\ fx.method = "POST" /\ fx.parses /\ fx.body.action # "fix"
               /\ fx.status \notin {401, 403}) =>
              fx.status = 400 /\ ~ Repairing

C17_AdminOnlyStep == storeVars' # storeVars => fx.pc = "rpc" /\ Authorized

C17_AdminOnly == [](C17_AdminOnlyState) /\ [][C17_AdminOnlyStep]_vars

\* a POST with action 'fix' by a user who is not an admin was refused with
\* 403 while a flagged Transaction was waiting, and nothing was repaired
C17_Witness ==
  /\ fx.pc = "responded" /\ fx.method = "POST" /\ fx.body.action = "fix"
  /\ Authenticated /\ ~ Authorized /\ fx.status = 403
  /\ Flagged(transactions, purchases) # {}
  /\ ~ Repairing

\* C18: a request without user_id, type or amount is answered 400, and a
\* credit-card expense whose card is not one of user_id's is answered 403;
\* for such a request nothing is ever inserted and neither the bill
\* generator nor the goal update is called.
MissingFields(d) == Falsy(d.user_id) \/ Falsy(d.type) \/ FalsyNumber(d.amount)
ForeignCard(d) ==
  /\ ~ MissingFields(d)
  /\ d.type = "expense" /\ d.credit_card_id # NULL
  /\ ~ \E c \in cards : c.id = d.credit_card_id /\ c.user_id = d.user_id
Untouched ==
  /\ transactions = {} /\ purchases = {} /\ bills = {}
  /\ \A g \in GoalIds : goals[g] = 0

C18_ValidationShortCircuits ==
  (req.pc # "idle" /\ req.method = "POST") =>
    /\ MissingFields(req.data) =>
         /\ Untouched /\ req.calls = {}
         /\ req.pc = "responded" => req.status = 400
    /\ ForeignCard(req.data) =>
         /\ Untouched /\ req.calls = {}
         /\ req.pc = "responded" => req.status = 403

\* user u1 asked for an expense on u2's card and was refused
C18_Witness ==
  /\ req.pc = "responded" /\ req.method = "POST"
  /\ req.data.user_id = "u1" /\ req.data.credit_card_id = "c2"
  /\ ForeignCard(req.data) /\ req.status = 403 /\ purchases = {}

\* C19: a request whose amount is zero or negative is answered 400, and
\* every Transaction and Purchase the entry point creates has amount > 0.
C19_PositiveAmountOnly ==
  /\ (req.pc = "responded" /\ req.method = "POST" /\ req.data.amount <= 0) =>
       req.status = 400
  /\ \A t \in transactions : t.amount > 0
  /\ \A cp \in purchases : cp.amount > 0

\* C20: when the bill generator fails after the Purchase was inserted the
\* answer is 200 'credit_card_purchase' and the Purchase is there; when the
\* goal update fails after the Transaction was inserted the answer is 200
\* 'transaction' and the Transaction is there; a request answered 500 has
\* inserted nothing and has called neither dependency.
C20_DependencyFailureSwallowed ==
  (req.pc = "responded" /\ req.method = "POST") =>
    /\ "auto_generate_credit_card_bills" \in req.failed =>
         /\ req.status = 200 /\ req.type = "credit_card_purchase"
         /\ \E cp \in purchases : /\ cp.card_id = req.data.credit_card_id
                                  /\ cp.amount = req.data.amount
         /\ bills = {}
    /\ "update_goal_amount" \in req.failed =>
         /\ req.status = 200 /\ req.type = "transaction"
         /\ req.attempt.new \in transactions
         /\ goals[req.data.goal_id] = 0
    /\ req.status = 500 => Untouched /\ req.calls = {}
    /\ req.calls # {} => transactions # {} \/ purchases # {}

\* the bill generator failed after the Purchase of the request was inserted
C20_Witness ==
  /\ req.pc = "responded" /\ req.method = "POST"
  /\ req.failed = {"auto_generate_credit_card_bills"}
  /\ req.status = 200 /\ purchases # {}

\* C21: in every row the routine returns, created_purchases equals
\* fixed_transactions, whichever of the insert, the delete and the bill
\* generation failed for whichever rows.
C21_CreatedEqualsFixed ==
  \A i \in 1..Len(results) :
    results[i].created_purchases = results[i].fixed_transactions

\* C23: in the returned row every scanned Transaction is accounted for once:
\* fixed_transactions plus the number of errors is the number of scanned
\* rows, and the rows counted as fixed or created are not among the rows
\* named in errors.
Scanned(p) == Candidates(start[p].transactions, start[p].purchases, cards)
WithoutError(p) == {t \in Scanned(p) : ErrorsOf(p, t.id) = {}}

C23_EachRowAccountedOnce ==
  pc[1] = "done" =>
    /\ results[1].fixed_transactions + Len(results[1].errors) = Cardinality(Scanned(1))
    /\ results[1].fixed_transactions <= Cardinality(WithoutError(1))
    /\ results[1].created_purchases <= Cardinality(WithoutError(1))

\* C22: a call attempts the rows of its scan once each, in the order the
\* scan returned them; in the committed tables a scanned row is at every
\* moment either still flagged or migrated, never in between, and at the
\* return it is migrated or failed; errors lists the failing rows in the
\* order they were processed; a row failure never aborts the call, and the
\* call, once in its loop, comes to its end.
Fetched(p) == Len(start[p].order) - Len(rows[p])
Position(p, id) == CHOOSE k \in 1..Len(start[p].order) : start[p].order[k].id = id
StillFlagged(t) == Exists(t.id) /\ PurchasesOf(t.id) = {}
NowMigrated(t) == ~ Exists(t.id) /\ PurchasesOf(t.id) # {}

C22_OnePassState ==
  pc[1] # "idle" =>
    LET order == start[1].order IN
      /\ Len(order) = Cardinality(Scanned(1))
      /\ {order[k] : k \in 1..Len(order)} = Scanned(1)
      /\ rows[1] = SubSeq(order, Fetched(1) + 1, Len(order))
      /\ pc[1] \in {"insert", "delete", "bill"} =>
           transaction_record[1] = order[Fetched(1)]
      /\ \A i \in 1..Len(errors_array[1]) :
           /\ \E k \in 1..Fetched(1) : order[k].id = errors_array[1][i].transaction_id
           /\ \A j \in 1..Len(errors_array[1]) :
                i < j => Position(1, errors_array[1][i].transaction_id)
                           < Position(1, errors_array[1][j].transaction_id)
      /\ \A t \in Scanned(1) : StillFlagged(t) \/ NowMigrated(t)
      /\ pc[1] = "done" =>
           /\ rows[1] = <<>>
           /\ \A t \in Scanned(1) :
                NowMigrated(t) \/ (StillFlagged(t) /\ ErrorsOf(1, t.id) # {})

C22_OnePassStep ==
  /\ pc'[1] = "aborted" => pc[1] \in {"idle", "sweep", "aborted"}
  /\ (pc[1] = "loop" /\ pc'[1] = "insert") =>
       transaction_record'[1] = Head(rows[1]) /\ rows'[1] = Tail(rows[1])

C22_Terminates == (pc[1] = "loop") ~> (pc[1] \in {"done", "aborted"})

C22_OnePass == [](C22_OnePassState) /\ [][C22_OnePassStep]_vars /\ C22_Terminates

\* a call over two rows has returned: the first row was migrated, the
\* second failed and is the one named in errors
C22_Witness ==
  /\ pc[1] = "done"
  /\ Len(start[1].order) = 2
  /\ NowMigrated(start[1].order[1])
  /\ StillFlagged(start[1].order[2])
  /\ Len(errors_array[1]) = 1
  /\ errors_array[1][1].transaction_id = start[1].order[2].id

\* C24: on the regular path the category is resolved first: the given
\* category_id, else the user's category of that name and type, else the
\* user's 'Outros' of that type; without one the answer is 400 and no
\* Transaction is inserted; a Transaction is inserted only with the resolved
\* category; the goal is adjusted only after the insert succeeded and only
\* for an income with a goal_id.
RegularPath(d) == ~ MissingFields(d) /\ ~ (d.type = "expense" /\ d.credit_card_id # NULL)
CategoriesOf(d, name) ==
  {c.id : c \in {x \in poupeja_categories :
                   x.name = name /\ x.type = d.type /\ x.user_id = d.user_id}}
ExpectedCategory(d) ==
  IF d.category_id # NULL THEN d.category_id
  ELSE IF d.category # NULL /\ CategoriesOf(d, d.category) # {}
    THEN CHOOSE c \in CategoriesOf(d, d.category) : TRUE
  ELSE IF CategoriesOf(d, "Outros") # {}
    THEN CHOOSE c \in CategoriesOf(d, "Outros") : TRUE
  ELSE NULL
GoalAdjusted ==
  \/ "update_goal_amount" \in req.calls
  \/ req.pc = "goal"
  \/ \E g \in GoalIds : goals[g] # 0

C24_RegularPathState ==
  (req.pc # "idle" /\ req.method = "POST") =>
    /\ RegularPath(req.data) =>
         /\ ExpectedCategory(req.data) = NULL =>
              /\ transactions = {} /\ req.calls = {}
              /\ req.pc \in {"validate", "category", "responded"}
              /\ req.pc = "responded" => req.status = 400
         /\ req.pc \in {"insert", "goal"} =>
              req.categoryId = ExpectedCategory(req.data)
         /\ \A t \in transactions :
              t.category_id = ExpectedCategory(req.data) /\ t.category_id # NULL
    /\ GoalAdjusted =>
         /\ RegularPath(req.data)
         /\ req.data.type = "income" /\ req.data.goal_id # NULL
         /\ ~ req.attempt.raised /\ req.attempt.new \in transactions
    /\ (req.pc = "responded" /\ req.status = 500) => ~ GoalAdjusted

C24_RegularPathStep ==
  /\ transactions' # transactions =>
       req.pc = "insert" /\ req.categoryId # NULL
  /\ goals' # goals => req.pc = "goal" /\ transactions # {}

C24_RegularPathOrder == [](C24_RegularPathState) /\ [][C24_RegularPathStep]_vars

\* an income for a goal, sent without category, was stored under the user's
\* 'Outros' income category and the goal was adjusted
C24_Witness ==
  /\ req.pc = "responded" /\ req.method = "POST" /\ req.status = 200
  /\ req.data.type = "income" /\ req.data.goal_id = "g1"
  /\ req.data.category_id = NULL /\ req.data.category = NULL
  /\ \E t \in transactions : t.category_id = "cat_outros_income"
  /\ goals["g1"] = req.data.amount

====
